---- MODULE Spec2Model ----
(***************************************************************************)
(* Model of the seislip InSAR ingest code:                                 *)
(*   src/slippy/data/insar.py   InSAR.read_from_gamma, InSAR.__phase2los   *)
(*   src/parse_files.py         get_image_para, get_image_data             *)
(*                                                                         *)
(* Numbers.  A raster sample is a 4-byte float; it is modelled as a record *)
(* [nan, v]: either not-a-number, or an integer count v of a fixed         *)
(* quantum.  Phase samples count radians; angle samples (azimuth,          *)
(* incidence) count units of pi/90 radian, so that np.degrees is the       *)
(* multiplication by 2.  Geographic coordinates count units of 0.001       *)
(* degree.  A LOS sample keeps the radar frequency it was converted with:  *)
(* [nan, v, freq] stands for v * (c / freq) / (4 * pi) metres.             *)
(***************************************************************************)
EXTENDS Integers, Sequences, FiniteSets, TLC

VARIABLES data, data_para, last

vars == <<data, data_para, last>>

(* ------------------------------ bounds -------------------------------- *)

\* largest raster width (range samples) of an enumerated parameter file
MaxWidth == 2
\* largest raster height (azimuth lines) of an enumerated parameter file
MaxLines == 2
\* largest downsample stride of an enumerated call
MaxStride == 3
\* largest width and height of a raster handed to get_image_data
MaxImage == 5
\* largest resample factor handed to get_image_data
MaxFactor == 3

(* --------------------------- float samples ---------------------------- *)

\* Python's None, as held by self.data and self.data_para after __init__
None == [none |-> TRUE]

\* the unit tag of each channel of the dataset (lines 180-187)
Units ==
    [lon |-> "degree", lat |-> "degree", x |-> "km", y |-> "km",
     phase |-> "radian", los |-> "m", azi |-> "degree", inc |-> "degree"]

\* the arguments of one call of read_from_gamma (lines 66-72)
Call(para_file, phase_file, azi_file, inc_file, satellite, downsample) ==
    [para_file |-> para_file, phase_file |-> phase_file,
     azi_file |-> azi_file, inc_file |-> inc_file,
     satellite |-> satellite, downsample |-> downsample]

\* a float sample with the finite value c
F(c) == [nan |-> FALSE, v |-> c]

\* np.nan
NaN == [nan |-> TRUE, v |-> 0]

\* the comparison `sample == 0` of numpy: false for not-a-number
IsZero(x) == ~x.nan /\ x.v = 0

\* mutant of Mask: every array is masked where it is itself 0
MaskOwnZero(ph, other) == IF IsZero(other) THEN NaN ELSE other

\* np.where(phase == 0, np.nan, other), on one sample
Mask(ph, other) == IF IsZero(ph) THEN NaN ELSE other

\* -180 - np.degrees(azimuth), on one sample (np.degrees doubles the count)
AziDeg(x) == IF x.nan THEN NaN ELSE F(-180 - 2 * x.v)

\* 90 - np.degrees(incidence), on one sample
IncDeg(x) == IF x.nan THEN NaN ELSE F(90 - 2 * x.v)

\* -(phase / 2 / np.pi * wavelength / 2) with wavelength = c / radar_freq
LosOf(x, radar_freq) ==
    IF x.nan THEN [nan |-> TRUE, v |-> 0, freq |-> "nan"]
    ELSE [nan |-> FALSE, v |-> -x.v, freq |-> radar_freq]

(* ------------------------------- files -------------------------------- *)

\* a path that cannot be opened
NoFile == [exists |-> FALSE]

\* a text file: its lines, each "<key>: <value>" split at the first colon
TextFile(lines) == [exists |-> TRUE, lines |-> lines]

\* a binary file: its complete 4-byte floats and 0..3 trailing bytes
BinFile(floats, tail) == [exists |-> TRUE, floats |-> floats, tail |-> tail]

\* the size of a binary file in bytes
ByteLen(f) == 4 * Len(f.floats) + f.tail

\* the function with the empty domain: no local variable bound yet
NoLocals == [k \in {} |-> 0]


(* ------------------------- parameter parsing -------------------------- *)

\* the keys read_from_gamma looks for (insar.py lines 97-111)
GammaKeys ==
    {"width", "nlines", "corner_lat", "corner_lon", "post_lat", "post_lon",
     "ellipsoid_name"}

\* the keys get_image_para looks for (parse_files.py lines 37-54)
ParaKeys ==
    {"width", "nlines", "corner_lat", "corner_lon", "post_lat", "post_lon"}

\* `for line in file: if line.startswith('<key>:'): <var> = <value>`: the
\* local variables bound after the whole file was scanned; a later line
\* with the same key overwrites an earlier one, other lines are passed over
RECURSIVE ScanLines(_, _)
ScanLines(lines, keys) ==
    IF lines = <<>> THEN NoLocals
    ELSE LET n == Len(lines)
             before == ScanLines(SubSeq(lines, 1, n - 1), keys)
         IN IF lines[n].key \in keys
            THEN (lines[n].key :> lines[n].val) @@ before
            ELSE before

\* is the local variable `name` bound (else its use is UnboundLocalError)
Bound(env, name) == name \in DOMAIN env

(* ----------------------------- numpy ---------------------------------- *)

\* mutant of Decode: the floats stored in file order, without the transpose
DecodeInFileOrder(floats, range_samples, azimuth_lines) ==
    [j \in 1..range_samples |->
        [i \in 1..azimuth_lines |-> floats[(j - 1) * azimuth_lines + i]]]

\* the decode loop: for i in range(azimuth_lines): for j in
\* range(range_samples): arr[j][i] = next float of the file
Decode(floats, range_samples, azimuth_lines) ==
    [j \in 1..range_samples |->
        [i \in 1..azimuth_lines |-> floats[(i - 1) * range_samples + j]]]

\* np.where(phase == 0, np.nan, other) on two arrays of the same shape
Where(phase, other) ==
    [j \in 1..Len(phase) |->
        [i \in 1..Len(phase[j]) |-> Mask(phase[j][i], other[j][i])]]

\* arr.transpose() of a two-dimensional array
Transpose(arr) ==
    [i \in 1..Len(arr[1]) |-> [j \in 1..Len(arr) |-> arr[j][i]]]

\* arr.reshape(-1, 1): the rows one after the other (C order)
Flatten(arr) ==
    LET cols == Len(arr[1])
    IN [k \in 1..(Len(arr) * cols) |->
           arr[((k - 1) \div cols) + 1][((k - 1) % cols) + 1]]

\* mutant of Stride: the length rounded down, dropping a last partial step
StrideFloor(seq, step) ==
    [m \in 1..(Len(seq) \div step) |-> seq[(m - 1) * step + 1]]

\* seq[::step] for step >= 1
Stride(seq, step) ==
    [m \in 1..((Len(seq) + step - 1) \div step) |-> seq[(m - 1) * step + 1]]

\* np.linspace(start, stop, num): num evenly spaced values, start first
Linspace(start, stop, num) ==
    [j \in 1..num |->
        IF num = 1 THEN start
        ELSE start + (j - 1) * ((stop - start) \div (num - 1))]

\* np.meshgrid(lons, lats)[0]: every row is lons
MeshLons(lons, lats) == [i \in 1..Len(lats) |-> lons]

\* np.meshgrid(lons, lats)[1]: row i is lats[i] repeated
MeshLats(lons, lats) ==
    [i \in 1..Len(lats) |-> [j \in 1..Len(lons) |-> lats[i]]]

\* GeoTrans.ll2xy, one coordinate of the projection of every (lon, lat)
\* pair: the projection is kept symbolic, tagged with the pair it was
\* computed from
ll2xy(Lons, Lats, axis) ==
    [m \in 1..Len(Lons) |-> [lon |-> Lons[m], lat |-> Lats[m], axis |-> axis]]

(* ---------------------------- __phase2los ----------------------------- *)

\* the radar frequency chosen by the if/elif chain, or "" for the else branch
RadarFreq(satellite) ==
    IF satellite \in {"sentinel-1", "Sentinel-1", "s1", "S1"}
    THEN "5.40500045433e9"
    ELSE IF satellite \in {"ALOS", "alos"} THEN "1.27e9"
    ELSE IF satellite = "ALOS-2/U" THEN "1.2575e9"
    ELSE IF satellite = "ALOS-2/{F,W}" THEN "1.2365e9"
    ELSE ""

\* InSAR.__phase2los on a column of phase samples
phase2los(phase, satellite) ==
    IF RadarFreq(satellite) = ""
    THEN [los |-> <<>>, exc |-> "ValueError"]
    ELSE [los |-> [m \in 1..Len(phase) |->
                      LosOf(phase[m], RadarFreq(satellite))],
          exc |-> "none"]

(* -------------------------- read_from_gamma --------------------------- *)

\* what one call leaves behind: the two attributes, the exception that left
\* the call ("none": it returned None), the try blocks whose `except
\* IOError` caught and printed, and the files it tried to open, in order
Outcome(d, dp, exc, caught, opens) ==
    [data |-> d, data_para |-> dp, exc |-> exc, caught |-> caught,
     opens |-> opens]

\* lines 92-124, the first try block: open and scan the parameter file,
\* then compute and print the resolution
ParaStage(para_file) ==
    IF ~para_file.exists
    THEN [env |-> NoLocals, exc |-> "none", caught |-> {"para"}]
    ELSE LET env == ScanLines(para_file.lines, GammaKeys)
         IN IF ~Bound(env, "post_lon")
            THEN [env |-> env, exc |-> "UnboundLocalError", caught |-> {}]
            ELSE IF ~Bound(env, "width") \/ ~Bound(env, "nlines")
            THEN [env |-> env, exc |-> "UnboundLocalError", caught |-> {}]
            ELSE [env |-> env, exc |-> "none", caught |-> {}]

\* line 129: the three raster files are opened one after the other; the
\* first that cannot be opened ends the attempt
RasterOpens(a) ==
    <<"phase">>
        \o (IF a.phase_file.exists THEN <<"azi">> ELSE <<>>)
        \o (IF a.phase_file.exists /\ a.azi_file.exists THEN <<"inc">> ELSE <<>>)

\* lines 155-188: the dataset built from the three decoded arrays
Dataset(phase0, azimuth0, incidence0, los, env, downsample) ==
    LET range_samples == env["width"]
        azimuth_lines == env["nlines"]
        azimuth1 == Where(phase0, azimuth0)
        incidence1 == Where(phase0, incidence0)
        phase1 == Where(phase0, phase0)
        phase == Stride(Flatten(Transpose(phase1)), downsample)
        azimuth2 == Stride(Flatten(Transpose(azimuth1)), downsample)
        incidence2 == Stride(Flatten(Transpose(incidence1)), downsample)
        azimuth == [m \in 1..Len(azimuth2) |-> AziDeg(azimuth2[m])]
        incidence == [m \in 1..Len(incidence2) |-> IncDeg(incidence2[m])]
        lats == Linspace(env["corner_lat"],
                         env["corner_lat"] + (azimuth_lines - 1) * env["post_lat"],
                         azimuth_lines)
        lons == Linspace(env["corner_lon"],
                         env["corner_lon"] + (range_samples - 1) * env["post_lon"],
                         range_samples)
        Lons == Stride(Flatten(MeshLons(lons, lats)), downsample)
        Lats == Stride(Flatten(MeshLats(lons, lats)), downsample)
    IN [lon   |-> [value |-> Lons, unit |-> Units.lon],
        lat   |-> [value |-> Lats, unit |-> Units.lat],
        x     |-> [value |-> ll2xy(Lons, Lats, "x"), unit |-> Units.x],
        y     |-> [value |-> ll2xy(Lons, Lats, "y"), unit |-> Units.y],
        phase |-> [value |-> phase, unit |-> Units.phase],
        los   |-> [value |-> los, unit |-> Units.los],
        azi   |-> [value |-> azimuth, unit |-> Units.azi],
        inc   |-> [value |-> incidence, unit |-> Units.inc]]

\* lines 128-196, the second try block, entered with the locals `env` the
\* first block bound and `caught` naming the first block if it caught
RasterStage(self_data, self_data_para, env, caught, a) ==
    LET opens == <<"para">> \o RasterOpens(a)
        raise(e) == Outcome(self_data, self_data_para, e, caught, opens)
    IN IF ~(a.phase_file.exists /\ a.azi_file.exists /\ a.inc_file.exists)
       THEN \* except IOError: print, fall off the end of the method
            Outcome(self_data, self_data_para, "none",
                    caught \cup {"image"}, opens)
       ELSE IF ~Bound(env, "width") \/ ~Bound(env, "nlines")
       THEN raise("UnboundLocalError")                          \* line 130
       ELSE LET n == env["width"] * env["nlines"]
            IN IF \/ Len(a.phase_file.floats) < n
                  \/ Len(a.azi_file.floats) < n
                  \/ Len(a.inc_file.floats) < n
               THEN raise("struct.error")                  \* lines 146-150
               ELSE IF a.downsample = 0
               THEN raise("ZeroDivisionError")                  \* line 153
               ELSE LET phase0 == Decode(a.phase_file.floats,
                                         env["width"], env["nlines"])
                        azimuth0 == Decode(a.azi_file.floats,
                                           env["width"], env["nlines"])
                        incidence0 == Decode(a.inc_file.floats,
                                             env["width"], env["nlines"])
                        phase == Stride(Flatten(Transpose(
                                     Where(phase0, phase0))), a.downsample)
                        conv == phase2los(phase, a.satellite)
                    IN IF conv.exc # "none"
                       THEN raise(conv.exc)                     \* line 161
                       ELSE IF \/ ~Bound(env, "corner_lat")
                               \/ ~Bound(env, "post_lat")
                               \/ ~Bound(env, "corner_lon")
                       THEN raise("UnboundLocalError")     \* lines 169-170
                       ELSE LET new == Dataset(phase0, azimuth0, incidence0,
                                               conv.los, env, a.downsample)
                            IN IF ~Bound(env, "ellipsoid_name")
                               THEN \* line 179 has assigned self.data when
                                    \* line 192 raises
                                    Outcome(new, self_data_para,
                                            "UnboundLocalError", caught, opens)
                               ELSE Outcome(new,
                                       [satellite |-> a.satellite,
                                        datum_name |-> env["ellipsoid_name"]],
                                       "none", caught, opens)

\* InSAR.read_from_gamma(para_file, phase_file, azi_file, inc_file,
\* satellite, downsample) on an instance holding self_data, self_data_para
read_from_gamma(self_data, self_data_para, a) ==
    LET para == ParaStage(a.para_file)
    IN IF para.exc # "none"
       THEN Outcome(self_data, self_data_para, para.exc, {}, <<"para">>)
       ELSE RasterStage(self_data, self_data_para, para.env, para.caught, a)

(* --------------------------- parse_files ------------------------------ *)

\* what a call of a function of parse_files leaves behind: the exception
\* that left it ("none": it returned), whether its `except IOError` caught
\* and printed, and the value it returned
Returned(exc, caught, ret) == [exc |-> exc, caught |-> caught, ret |-> ret]

\* post_arc * 40075017 / 360 / 3600, the ground resolution in metres; the
\* factor is kept symbolic, the value is post_arc times it
PostUtm(post_arc) == [arc |-> post_arc, times |-> "40075017/360/3600"]

\* get_image_para(par_file)
get_image_para(par_file) ==
    IF ~par_file.exists
    THEN Returned("none", {"para"}, None)                   \* lines 68-69
    ELSE LET env == ScanLines(par_file.lines, ParaKeys)
         IN IF ~Bound(env, "post_lon")
            THEN Returned("UnboundLocalError", {}, None)        \* line 57
            ELSE IF \E k \in ParaKeys : ~Bound(env, k)
            THEN Returned("UnboundLocalError", {}, None)        \* line 66
            ELSE Returned("none", {},
                     <<env["width"], env["nlines"], env["corner_lat"],
                       env["corner_lon"], env["post_lat"], env["post_lon"],
                       env["post_lon"] * 3600,
                       PostUtm(env["post_lon"] * 3600)>>)

\* the smallest number of grid points along an axis that the cubic spline
\* fit behind interpolate.interp2d(..., kind='cubic') accepts (order + 1)
CubicPoints == 4

\* np.arange(0, stop, step) for stop >= 1 and step # 0: empty when the
\* step points away from stop
Arange(stop, step) ==
    IF step < 0
    THEN << >>
    ELSE [m \in 1..((stop + step - 1) \div step) |-> (m - 1) * step]

\* interp_func(new_cols, new_rows) of the spline through image_arry: one
\* row per element of new_rows, one column per element of new_cols; at
\* the grid points the spline takes the values it was fitted to
Interp2d(image_arry, new_cols, new_rows) ==
    [r \in 1..Len(new_rows) |->
        [c \in 1..Len(new_cols) |-> image_arry[new_rows[r] + 1][new_cols[c] + 1]]]

\* lines 124-152 of get_image_data: the branch resample_factor != 1.  A
\* negative factor passes the floor divisions and the spline fit; its
\* np.arange steps away from the stop, so the spline is evaluated on
\* empty axes, which the evaluator behind interp_func refuses ("Invalid
\* input data")
Resample(image_arry, parameters, resample_factor) ==
    IF resample_factor = 0
    THEN Returned("ZeroDivisionError", {}, None)               \* line 125
    ELSE LET range_samples == parameters[1]
             azimuth_lines == parameters[2]
             new_rows == Arange(range_samples, resample_factor)
             new_cols == Arange(azimuth_lines, resample_factor)
         IN IF range_samples < CubicPoints \/ azimuth_lines < CubicPoints
            THEN Returned("dfitpack.error", {}, None)          \* line 140
            ELSE IF Len(new_rows) = 0 \/ Len(new_cols) = 0
            THEN Returned("ValueError", {}, None)              \* line 145
            ELSE Returned("none", {},
                     <<Interp2d(image_arry, new_cols, new_rows),
                       <<range_samples \div resample_factor,
                         azimuth_lines \div resample_factor,
                         parameters[3], parameters[4],
                         parameters[5] * resample_factor,
                         parameters[6] * resample_factor,
                         parameters[7] * resample_factor,
                         PostUtm(parameters[8].arc * resample_factor)>> >>)

\* get_image_data(image_file, parameters, resample_factor), for an integer
\* factor and plot_flag = 0
get_image_data(image_file, parameters, resample_factor) ==
    IF parameters = None
    THEN Returned("TypeError", {}, None)                        \* line 84
    ELSE IF ~image_file.exists
    THEN Returned("none", {"image"}, None)                \* lines 155-156
    ELSE IF Len(image_file.floats) < parameters[1] * parameters[2]
    THEN Returned("struct.error", {}, None)                    \* line 106
    ELSE LET image_arry == Decode(image_file.floats,
                                  parameters[1], parameters[2])
         IN IF resample_factor = 1
            THEN Returned("none", {}, <<image_arry, parameters>>)
            ELSE Resample(image_arry, parameters, resample_factor)

(* ------------------------- enumerated inputs -------------------------- *)

\* the lines of a GAMMA *.dem.par file of a W x H raster that holds the
\* keys `present` (and a title line no reader looks for); coordinates in
\* units of 0.001 degree
ParaLines(W, H, present) ==
    SelectSeq(<<[key |-> "title",          val |-> "dem"],
                [key |-> "width",          val |-> W],
                [key |-> "nlines",         val |-> H],
                [key |-> "corner_lat",     val |-> 10000],
                [key |-> "corner_lon",     val |-> 20000],
                [key |-> "post_lat",       val |-> -1],
                [key |-> "post_lon",       val |-> 2],
                [key |-> "ellipsoid_name", val |-> "WGS 84"]>>,
              LAMBDA l : l.key \in present \cup {"title"})

\* all seven keys, or all but one of them
KeySets == {GammaKeys} \cup {GammaKeys \ {k} : k \in GammaKeys}

\* the parameter files of a W x H raster, and a path that does not open
ParaFilesFor(W, H) ==
    {NoFile} \cup {TextFile(ParaLines(W, H, K)) : K \in KeySets}

\* sample k (from 0) of a raster: base + k + 1, but exactly 0 at the even
\* (odd) positions of an "even" ("odd") raster, and not-a-number at the
\* even positions of a "nan" raster
Sample(base, z, k) ==
    IF (z = "even" /\ k % 2 = 0) \/ (z = "odd" /\ k % 2 = 1) THEN F(0)
    ELSE IF z = "nan" /\ k % 2 = 0 THEN NaN
    ELSE F(base + k + 1)

\* a raster file for a declared geometry of n pixels: missing, two bytes
\* short of n floats, exactly n floats, or one float too long
RasterFile(base, z, n, status) ==
    IF status = "missing" THEN NoFile
    ELSE IF status = "short"
    THEN BinFile([i \in 1..(n - 1) |-> Sample(base, z, i - 1)], 2)
    ELSE IF status = "long"
    THEN BinFile([i \in 1..(n + 1) |-> Sample(base, z, i - 1)], 0)
    ELSE BinFile([i \in 1..n |-> Sample(base, z, i - 1)], 0)

Statuses == {"missing", "short", "exact", "long"}

\* satellite names: every spelling the lookup accepts, other spellings of
\* the same sensors, and another sensor
Satellites ==
    {"sentinel-1", "Sentinel-1", "s1", "S1", "ALOS", "alos", "ALOS-2/U",
     "ALOS-2/{F,W}", "SENTINEL-1", "Alos", "ALOS-2", "TerraSAR-X"}

\* (phase, azimuth, incidence) files for n declared pixels: complete files
\* with zeros and not-a-numbers at several places, and every combination
\* of missing, short, complete and long files
RasterTriples(n) ==
    {<<RasterFile(0, zp, n, "exact"), RasterFile(10, za, n, "exact"),
       RasterFile(20, zi, n, "exact")>> :
        zp \in {"none", "even", "odd"}, za \in {"none", "even"},
        zi \in {"none", "nan"}}
    \cup
    {<<RasterFile(0, "none", n, sp), RasterFile(10, "none", n, sa),
       RasterFile(20, "none", n, si)>> :
        sp \in Statuses, sa \in Statuses, si \in Statuses}

\* the satellites of the enumerated ingest calls
IngestSatellites == {"Sentinel-1", "ALOS-2/U", "TerraSAR-X"}

\* the phase files of the calls made again and again on one instance
RepeatPhase ==
    {<<"none", "missing">>, <<"none", "short">>, <<"none", "long">>,
     <<"none", "exact">>, <<"even", "exact">>}

(* ------------------------------ actions ------------------------------- *)

\* InSAR.__init__: both attributes None, no call made yet
Init ==
    /\ data = None
    /\ data_para = None
    /\ last = [exc |-> "none", caught |-> {}, opens |-> <<>>, ret |-> None,
               op |-> "init", args |-> None]

\* one call of InSAR.read_from_gamma with the arguments a
ReadFromGamma(a) ==
    LET r == read_from_gamma(data, data_para, a)
    IN /\ data' = r.data
       /\ data_para' = r.data_para
       /\ last' = [exc |-> r.exc, caught |-> r.caught, opens |-> r.opens,
                   ret |-> None, op |-> "read_from_gamma", args |-> a]

\* one call of InSAR.__phase2los on a single phase sample
Phase2Los(phase, satellite) ==
    LET r == phase2los(<<phase>>, satellite)
    IN /\ last' = [exc |-> r.exc, caught |-> {}, opens |-> <<>>,
                   ret |-> IF r.exc = "none" THEN r.los[1] ELSE None,
                   op |-> "phase2los",
                   args |-> [phase |-> phase, satellite |-> satellite]]
       /\ UNCHANGED <<data, data_para>>

\* one call of get_image_para
GetImagePara(par_file) ==
    LET r == get_image_para(par_file)
    IN /\ last' = [exc |-> r.exc, caught |-> r.caught, opens |-> <<"para">>,
                   ret |-> r.ret, op |-> "get_image_para",
                   args |-> [par_file |-> par_file]]
       /\ UNCHANGED <<data, data_para>>

\* one call of get_image_data
GetImageData(image_file, parameters, resample_factor) ==
    LET r == get_image_data(image_file, parameters, resample_factor)
    IN /\ last' = [exc |-> r.exc, caught |-> r.caught,
                   opens |-> IF parameters = None THEN <<>> ELSE <<"image">>,
                   ret |-> r.ret, op |-> "get_image_data",
                   args |-> [parameters |-> parameters,
                             resample_factor |-> resample_factor,
                             image_file |-> image_file]]
       /\ UNCHANGED <<data, data_para>>

\* an instance that is called again and again: the largest raster, every
\* parameter file, the phase file in every condition
Next ==
    \E p \in ParaFilesFor(MaxWidth, MaxLines), t \in RepeatPhase,
       sat \in {"Sentinel-1", "TerraSAR-X"}, ds \in {1, MaxStride} :
       ReadFromGamma(
           Call(p, RasterFile(0, t[1], MaxWidth * MaxLines, t[2]),
                RasterFile(10, "none", MaxWidth * MaxLines, "exact"),
                RasterFile(20, "none", MaxWidth * MaxLines, "exact"),
                sat, ds))

Spec == Init /\ [][Next]_vars

\* no call was made yet
Fresh == last.op = "init"

\* the first call after construction, with every enumerated input:
\* read_from_gamma on the fresh instance, a function of parse_files, or
\* the phase conversion on one sample
NextCall ==
    \/ /\ Fresh
       /\ \E W \in 1..MaxWidth, H \in 1..MaxLines :
             \E p \in ParaFilesFor(W, H), t \in RasterTriples(W * H),
                sat \in IngestSatellites, ds \in 0..MaxStride :
                ReadFromGamma(Call(p, t[1], t[2], t[3], sat, ds))
    \/ /\ Fresh
       /\ \E W \in 1..MaxWidth, H \in 1..MaxLines :
             \E p \in ParaFilesFor(W, H) : GetImagePara(p)
    \/ /\ Fresh
       /\ \E W \in 1..MaxImage, H \in 1..MaxImage :
             \E st \in Statuses, f \in (-MaxFactor)..MaxFactor,
                pars \in {None,
                          get_image_para(
                              TextFile(ParaLines(W, H, GammaKeys))).ret} :
                GetImageData(RasterFile(0, "none", W * H, st), pars, f)
    \/ /\ Fresh
       /\ \E ph \in {F(0), F(3), NaN}, sat \in Satellites : Phase2Los(ph, sat)

SpecCall == Init /\ [][NextCall]_vars

(* ------------------------- claims: vocabulary ------------------------- *)

\* the last call was read_from_gamma
IsIngest == last.op = "read_from_gamma"

\* the last call ended in a failure: an exception left it, or it printed
\* an error message and returned
CallFailed == last.exc # "none" \/ last.caught # {}

\* the last call was a read_from_gamma that ran to its end
IngestDone == IsIngest /\ ~CallFailed

\* the keys that start a line of a parameter file
KeysOf(file) == {file.lines[i].key : i \in 1..Len(file.lines)}

\* the value the last line with this key gives
ValueOf(file, key) ==
    LET i == CHOOSE i \in 1..Len(file.lines) :
                 /\ file.lines[i].key = key
                 /\ \A j \in (i + 1)..Len(file.lines) : file.lines[j].key # key
    IN file.lines[i].val

\* the sensor table of the specification: the frequency of a satellite
\* name, "" when the table does not hold it
TableFreq(satellite) ==
    IF satellite \in {"sentinel-1", "Sentinel-1", "SENTINEL-1", "s1", "S1"}
    THEN "5.40500045433e9"
    ELSE IF satellite \in {"alos", "Alos", "ALOS"} THEN "1.27e9"
    ELSE IF satellite = "ALOS-2/U" THEN "1.2575e9"
    ELSE IF satellite = "ALOS-2/{F,W}" THEN "1.2365e9"
    ELSE ""

\* the three raster files of an ingest call
RastersOf(a) == {a.phase_file, a.azi_file, a.inc_file}

\* the least q with q * b >= a
CeilDiv(a, b) == CHOOSE q \in 0..a : q * b >= a /\ \A r \in 0..(q - 1) : r * b < a

\* the eight channels of a dataset
Channels == {"lon", "lat", "x", "y", "phase", "los", "azi", "inc"}

(* ------------------------------ claims -------------------------------- *)

\* C1 (as claimed): a call of read_from_gamma that ends in a failure of any
\* kind leaves self.data and self.data_para as they were before the call.
C1_IngestAtomic ==
    [][(last'.op = "read_from_gamma"
        /\ (last'.exc # "none" \/ last'.caught # {}))
       => (data' = data /\ data_para' = data_para)]_vars

\* C2 (as claimed): with the six required keys present, no ellipsoid_name
\* line, raster files of the declared size, a satellite of the table and a
\* stride >= 1, read_from_gamma completes without error and publishes the
\* dataset and its metadata.
C2_EllipsoidOptional ==
    (/\ IsIngest
     /\ last.args.para_file.exists
     /\ KeysOf(last.args.para_file) \cap GammaKeys = ParaKeys
     /\ \A r \in RastersOf(last.args) :
           /\ r.exists
           /\ ByteLen(r) = 4 * ValueOf(last.args.para_file, "width")
                             * ValueOf(last.args.para_file, "nlines")
     /\ TableFreq(last.args.satellite) # ""
     /\ last.args.downsample >= 1)
    => (~CallFailed /\ data # None /\ data_para # None)

\* the declared width and height of the last ingest call, its stride, and
\* the files it read
W_ == ValueOf(last.args.para_file, "width")
H_ == ValueOf(last.args.para_file, "nlines")
S_ == last.args.downsample
PhaseFloats == last.args.phase_file.floats
AziFloats == last.args.azi_file.floats
IncFloats == last.args.inc_file.floats

\* the value of channel ch at output index n (from 0)
Chan(ch, n) == data[ch].value[n + 1]

\* sample k (from 0, file order) of a raster file
Float(floats, k) == floats[k + 1]

\* C3: after a successful read_from_gamma with width W, height H and stride
\* s, for every output index n with k = n*s < W*H: the decoder stored the
\* k-th float of each file at grid position [k mod W][k div W]; phase, los,
\* azi and inc at index n are derived from the k-th float of their files;
\* lon and lat at index n are corner_lon + (k mod W)*post_lon and
\* corner_lat + (k div W)*post_lat.
C3_PositionalAlignment ==
    IngestDone =>
        \A n \in 0..(W_ * H_ - 1) :
            LET k == n * S_
                ph == Float(PhaseFloats, k)
            IN k < W_ * H_ =>
                /\ n < Len(data.phase.value)
                /\ Decode(PhaseFloats, W_, H_)[(k % W_) + 1][(k \div W_) + 1]
                       = ph
                /\ Decode(AziFloats, W_, H_)[(k % W_) + 1][(k \div W_) + 1]
                       = Float(AziFloats, k)
                /\ Decode(IncFloats, W_, H_)[(k % W_) + 1][(k \div W_) + 1]
                       = Float(IncFloats, k)
                /\ Chan("phase", n) = (IF IsZero(ph) THEN NaN ELSE ph)
                /\ Chan("los", n) =
                       LosOf(IF IsZero(ph) THEN NaN ELSE ph,
                             TableFreq(last.args.satellite))
                /\ Chan("azi", n) =
                       (IF IsZero(ph) THEN NaN
                        ELSE AziDeg(Float(AziFloats, k)))
                /\ Chan("inc", n) =
                       (IF IsZero(ph) THEN NaN
                        ELSE IncDeg(Float(IncFloats, k)))
                /\ Chan("lon", n) =
                       ValueOf(last.args.para_file, "corner_lon")
                         + (k % W_) * ValueOf(last.args.para_file, "post_lon")
                /\ Chan("lat", n) =
                       ValueOf(last.args.para_file, "corner_lat")
                         + (k \div W_) * ValueOf(last.args.para_file, "post_lat")

\* C3 witness: a successful ingest of a raster of at least two columns and
\* two lines with stride 3, whose output index 1 is the pixel of column 1
\* on line 1.
C3_Witness ==
    /\ IngestDone
    /\ W_ = 2 /\ H_ >= 2 /\ S_ = 3
    /\ Len(data.phase.value) >= 2
    /\ Chan("phase", 1) = Float(PhaseFloats, 3)
    /\ Chan("lon", 1) # Chan("lon", 0)
    /\ Chan("lat", 1) # Chan("lat", 0)

\* C4: after a successful read_from_gamma with width W, height H and stride
\* k >= 1, each of the eight channels has ceil(W*H / k) rows, and row 0 of
\* every channel is pixel 0 of the flattened raster.
C4_DecimationLength ==
    (IngestDone /\ S_ >= 1) =>
        /\ \A ch \in Channels : Len(data[ch].value) = CeilDiv(W_ * H_, S_)
        /\ Chan("phase", 0) = Mask(Float(PhaseFloats, 0), Float(PhaseFloats, 0))
        /\ Chan("los", 0) = LosOf(Chan("phase", 0), TableFreq(last.args.satellite))
        /\ Chan("azi", 0) =
               AziDeg(Mask(Float(PhaseFloats, 0), Float(AziFloats, 0)))
        /\ Chan("inc", 0) =
               IncDeg(Mask(Float(PhaseFloats, 0), Float(IncFloats, 0)))
        /\ Chan("lon", 0) = ValueOf(last.args.para_file, "corner_lon")
        /\ Chan("lat", 0) = ValueOf(last.args.para_file, "corner_lat")
        /\ Chan("x", 0).lon = Chan("lon", 0) /\ Chan("x", 0).lat = Chan("lat", 0)
        /\ Chan("y", 0).lon = Chan("lon", 0) /\ Chan("y", 0).lat = Chan("lat", 0)

\* C4 witness: a successful ingest of four pixels with stride 3, which
\* leaves two rows (4/3 rounded up, not down).
C4_Witness ==
    /\ IngestDone
    /\ W_ * H_ = 4 /\ S_ = 3
    /\ \A ch \in Channels : Len(data[ch].value) = 2

\* C5: every surviving pixel whose decoded phase is exactly 0 is
\* not-a-number in phase, azi, inc and los; every surviving pixel whose
\* phase is not 0 carries, in each of those channels, the conversion of the
\* sample read for it, whatever its azimuth and incidence samples are.
C5_CoMasking ==
    IngestDone =>
        \A n \in 0..(Len(data.phase.value) - 1) :
            LET k == n * S_
                ph == Float(PhaseFloats, k)
                az == Float(AziFloats, k)
                ic == Float(IncFloats, k)
            IN IF ~ph.nan /\ ph.v = 0
               THEN /\ Chan("phase", n).nan /\ Chan("azi", n).nan
                    /\ Chan("inc", n).nan /\ Chan("los", n).nan
               ELSE /\ Chan("phase", n) = ph
                    /\ Chan("azi", n).nan = az.nan
                    /\ Chan("inc", n).nan = ic.nan
                    /\ Chan("los", n).nan = ph.nan
                    /\ ~az.nan => Chan("azi", n).v = -180 - 2 * az.v
                    /\ ~ic.nan => Chan("inc", n).v = 90 - 2 * ic.v

\* C5 witness: a successful ingest in which one surviving pixel has phase 0
\* (and is masked in azi) and another has a non-zero phase with an azimuth
\* sample of exactly 0 (and is not masked).
C5_Witness ==
    /\ IngestDone
    /\ \E n \in 0..(Len(data.phase.value) - 1) :
           /\ IsZero(Float(PhaseFloats, n * S_))
           /\ Chan("azi", n).nan
    /\ \E n \in 0..(Len(data.phase.value) - 1) :
           /\ ~IsZero(Float(PhaseFloats, n * S_))
           /\ IsZero(Float(AziFloats, n * S_))
           /\ Chan("azi", n) = F(-180)

\* the last call was get_image_data and returned a grid and a parameter list
GridReturned ==
    last.op = "get_image_data" /\ ~CallFailed

\* C6 (as claimed): for a factor f > 1, get_image_data returns a grid of
\* floor(W/f) x floor(H/f) samples, the width and nlines it returns with
\* it, and post_lat and post_lon f times the input spacings.
C6_ResampleDims ==
    (GridReturned /\ last.args.resample_factor > 1) =>
        LET f == last.args.resample_factor
            W == last.args.parameters[1]
            H == last.args.parameters[2]
            grid == last.ret[1]
            pars == last.ret[2]
        IN /\ Len(grid) = W \div f
           /\ \A r \in 1..Len(grid) : Len(grid[r]) = H \div f
           /\ pars[1] = Len(grid)
           /\ \A r \in 1..Len(grid) : pars[2] = Len(grid[r])
           /\ pars[5] = f * last.args.parameters[5]
           /\ pars[6] = f * last.args.parameters[6]

\* C7 (as claimed): read_from_gamma and get_image_data fail whenever a
\* raster file's byte length differs from width*height*4, shorter or
\* longer, and produce no dataset and no grid from it.  (Stated for
\* parameter files that hold every key, so that only the size is at fault.)
C7_RasterSize ==
    /\ (/\ IsIngest
        /\ last.args.para_file.exists
        /\ GammaKeys \subseteq KeysOf(last.args.para_file)
        /\ \E r \in RastersOf(last.args) :
              r.exists /\ ByteLen(r) # 4 * W_ * H_)
       => (CallFailed /\ data = None)
    /\ (/\ last.op = "get_image_data"
        /\ last.args.parameters # None
        /\ last.args.image_file.exists
        /\ ByteLen(last.args.image_file)
              # 4 * last.args.parameters[1] * last.args.parameters[2])
       => (CallFailed /\ last.ret = None)

\* the file the last call opened in the given role
Opened(role) ==
    IF role = "para" /\ IsIngest THEN last.args.para_file
    ELSE IF role = "para" THEN last.args.par_file
    ELSE IF role = "phase" THEN last.args.phase_file
    ELSE IF role = "azi" THEN last.args.azi_file
    ELSE IF role = "inc" THEN last.args.inc_file
    ELSE last.args.image_file

\* a file the last call tried to open could not be opened
OpenFailed == \E i \in 1..Len(last.opens) : ~Opened(last.opens[i]).exists

\* C8 (as claimed): whenever the parameter file or a raster file cannot be
\* opened, read_from_gamma, get_image_para and get_image_data end by
\* raising an error, never by returning, and read_from_gamma attempts no
\* raster file after the parameter file failed to open.
C8_OpenFailureSurfaced ==
    OpenFailed =>
        /\ last.exc # "none"
        /\ (IsIngest /\ ~last.args.para_file.exists) => last.opens = <<"para">>

\* C9 (as claimed): when a required key has no line in the parameter file,
\* get_image_para and the parameter stage of read_from_gamma fail with an
\* error after the scan, return no parameter record and go on to nothing
\* with the values they did extract.
C9_MissingKey ==
    (/\ IsIngest \/ last.op = "get_image_para"
     /\ Opened("para").exists
     /\ ~(ParaKeys \subseteq KeysOf(Opened("para"))))
    => /\ last.exc # "none"
       /\ last.ret = None
       /\ last.opens = <<"para">>
       /\ data = None

\* C10 (as claimed): the phase conversion succeeds, with the frequency of
\* the table, exactly for 'Sentinel-1' in any letter case, 's1', 'S1',
\* 'ALOS' in any letter case, 'ALOS-2/U' and 'ALOS-2/{F,W}', and fails with
\* an unsupported-sensor error and no output for every other name.
C10_SensorAcceptance ==
    last.op = "phase2los" =>
        IF TableFreq(last.args.satellite) # ""
        THEN /\ last.exc = "none"
             /\ last.ret = LosOf(last.args.phase,
                                 TableFreq(last.args.satellite))
        ELSE last.exc = "ValueError" /\ last.ret = None

\* C11 (as claimed): for every resample factor f <= 0, zero or negative,
\* get_image_data fails with ValueError and returns no grid and no
\* parameter list.  (Stated for calls with a parameter list and a readable
\* raster that holds every declared sample and is large enough for the
\* cubic fit, so that nothing but the factor can make the call fail.)
C11_FactorValidation ==
    (/\ last.op = "get_image_data"
     /\ last.args.parameters # None
     /\ last.args.image_file.exists
     /\ Len(last.args.image_file.floats) >=
            last.args.parameters[1] * last.args.parameters[2]
     /\ last.args.parameters[1] >= CubicPoints
     /\ last.args.parameters[2] >= CubicPoints
     /\ last.args.resample_factor <= 0)
    => (last.exc = "ValueError" /\ last.ret = None)
====
